---------------------------- MODULE Spec2Model ----------------------------
(***************************************************************************)
(* Model of the two command-line utilities of gmail-support-apps-script:   *)
(*   function_analyzer.py  - the undefined-symbol cross-reference checker  *)
(*   url_test.py           - the link checker                              *)
(* File texts are TLA+ strings; the regular expressions of the source are  *)
(* evaluated character by character, with Python's leftmost, greedy,       *)
(* non-overlapping matching.                                               *)
(***************************************************************************)
EXTENDS Integers, Sequences, FiniteSets, TLC

VARIABLES
    pc,                   \* position of the running utility
    gs_files,             \* analyzer: the scanned *.gs files, in glob order
    idx,                  \* analyzer: number of files the first pass has analysed
    order,                \* analyzer: iteration order of the set all_definitions
    all_definitions,      \* analyzer: project-wide set of defined names
    all_calls,            \* analyzer: name -> list of {file, line}
    all_class_refs,       \* analyzer: name -> list of {file, line, type, member}
    file_definitions,     \* analyzer: path -> definitions of that file
    undefined_functions,  \* analyzer: name -> list of {file, line}
    undefined_classes,    \* analyzer: name -> list of {file, line, type, member}
    report,               \* analyzer: content of function_analysis_report.json
    files_to_check,       \* link checker: the scanned files
    scanned,              \* link checker: number of files URLs were extracted from
    network,              \* link checker: what came of each call of test_url
    all_urls,             \* link checker: list of <<url, filepath>>
    unique_urls,          \* link checker: insertion-ordered list of [url, files]
    results,              \* link checker: status -> list of result entries
    tested,               \* link checker: the URLs handed to test_url, in order
    requested,            \* link checker: the URLs a HEAD request was issued for
    written,              \* link checker: content of url_test_results.json
    exit_status           \* the process's exit status, -1 while running

avars == <<gs_files, idx, order, all_definitions, all_calls, all_class_refs,
           file_definitions, undefined_functions, undefined_classes, report>>
uvars == <<files_to_check, scanned, network, all_urls, unique_urls, results, tested,
           requested, written>>
vars == <<pc, avars, uvars, exit_status>>

---------------------------------------------------------------------------
(* Characters and the character classes of Python's re module (ASCII).     *)

Lowercase == {"a","b","c","d","e","f","g","h","i","j","k","l","m",
              "n","o","p","q","r","s","t","u","v","w","x","y","z"}
Uppercase == {"A","B","C","D","E","F","G","H","I","J","K","L","M",
              "N","O","P","Q","R","S","T","U","V","W","X","Y","Z"}
Digits == {"0","1","2","3","4","5","6","7","8","9"}
\* \w
WordChars == Lowercase \cup Uppercase \cup Digits \cup {"_"}
\* \s
Whitespace == {" ", "\t", "\n", "\r", "\f"}

\* The character of t at offset i (1-based), "" past the end.
Ch(t, i) == IF 1 <= i /\ i <= Len(t) THEN SubSeq(t, i, i) ELSE ""

\* Whether the literal lit stands in t at offset i.
LitAt(t, i, lit) ==
    /\ i + Len(lit) - 1 <= Len(t)
    /\ SubSeq(t, i, i + Len(lit) - 1) = lit

\* The first offset >= i whose character is not in cls: the end of a greedy
\* run cls* starting at i.
RECURSIVE SkipClass(_, _, _)
SkipClass(t, i, cls) ==
    IF i <= Len(t) /\ Ch(t, i) \in cls THEN SkipClass(t, i + 1, cls) ELSE i

\* The first offset >= i where lit stands, 0 when there is none.
RECURSIVE Find(_, _, _)
Find(t, i, lit) ==
    IF i + Len(lit) - 1 > Len(t) THEN 0
    ELSE IF LitAt(t, i, lit) THEN i
    ELSE Find(t, i + 1, lit)

\* The first offset >= i whose character is in stop, Len(t) + 1 when none is:
\* the end of a greedy run [^stop]* starting at i.
RECURSIVE SkipTo(_, _, _)
SkipTo(t, i, stop) ==
    IF i <= Len(t) /\ Ch(t, i) \notin stop THEN SkipTo(t, i + 1, stop) ELSE i

\* str.count('\n') of the first n characters of t.
CountNewlines(t, n) == Cardinality({i \in 1..n : Ch(t, i) = "\n"})

UpperLetters == "ABCDEFGHIJKLMNOPQRSTUVWXYZ"
LowerLetters == "abcdefghijklmnopqrstuvwxyz"

\* str.lower()
RECURSIVE lower(_)
lower(str) ==
    IF str = "" THEN ""
    ELSE (IF Head(str) \in Uppercase
          THEN Ch(LowerLetters, Find(UpperLetters, 1, Head(str)))
          ELSE Head(str)) \o lower(Tail(str))

\* A slip: class_name.startswith(func_name), the test the other way round.
StartsWithReversed(s, prefix) == LitAt(prefix, 1, s)

\* A slip: the prefix test made without regard to case.
StartsWithIgnoreCase(s, prefix) == LitAt(lower(s), 1, lower(prefix))

\* func_name.startswith(class_name)
StartsWith(s, prefix) == LitAt(s, 1, prefix)

\* The element of a one-element set.  TheOne({f(v) : v \in {e}}) is f(e)
\* with e evaluated once, as a local variable of the source is.
TheOne(S) == CHOOSE x \in S : TRUE

\* A failed match attempt.
NoMatch == [end |-> 0, name |-> "", member |-> ""]
Matched(e, n, m) == [end |-> e, name |-> n, member |-> m]

---------------------------------------------------------------------------
(* The patterns, each tried at one offset p.  A match gives the offset     *)
(* after its last character and its capture group(s).                      *)

\* (\w+)\s*\(
MatchCall(t, p) ==
    LET e == SkipClass(t, p, WordChars)
        s == SkipClass(t, e, Whitespace)
    IN  IF e > p /\ Ch(t, s) = "(" THEN Matched(s + 1, SubSeq(t, p, e - 1), "")
        ELSE NoMatch

\* function\s+(\w+)\s*\(   and   new\s+(\w+)\s*\(
MatchKeywordCall(t, p, keyword) ==
    LET k == p + Len(keyword)
        s == SkipClass(t, k, Whitespace)
        m == MatchCall(t, s)
    IN  IF LitAt(t, p, keyword) /\ s > k THEN m ELSE NoMatch

\* (\w+)\s*\([^)]*\)\s*{
MatchMethodBody(t, p) ==
    LET m == MatchCall(t, p)
        c == IF m.end > 0 THEN Find(t, m.end, ")") ELSE 0
        b == SkipClass(t, c + 1, Whitespace)
    IN  IF c > 0 /\ Ch(t, b) = "{" THEN Matched(b + 1, m.name, "") ELSE NoMatch

\* (?:static\s+)?(\w+)\s*\([^)]*\)\s*{
MatchMethod(t, p) ==
    LET k == p + 6
        s == SkipClass(t, k, Whitespace)
        withStatic == IF LitAt(t, p, "static") /\ s > k
                      THEN MatchMethodBody(t, s) ELSE NoMatch
    IN  IF withStatic.end > 0 THEN withStatic ELSE MatchMethodBody(t, p)

\* (?:const|let|var)\s+(\w+)\s*=\s*(?:\([^)]*\)|[^=]+)\s*=>
MatchArrow(t, p) ==
    LET k == IF LitAt(t, p, "const") THEN p + 5
             ELSE IF LitAt(t, p, "let") THEN p + 3
             ELSE IF LitAt(t, p, "var") THEN p + 3
             ELSE 0
        s == SkipClass(t, k, Whitespace)
        e == SkipClass(t, s, WordChars)
        q == SkipClass(t, e, Whitespace)          \* the offset of "="
        a == SkipClass(t, q + 1, Whitespace)
        \* first alternative: \([^)]*\) \s* =>
        c == IF Ch(t, a) = "(" THEN Find(t, a + 1, ")") ELSE 0
        g == SkipClass(t, c + 1, Whitespace)
        \* second alternative: [^=]+ runs to the next "=", which must start =>
        z == Find(t, q + 1, "=")
    IN  IF k = 0 \/ s = k \/ e = s \/ Ch(t, q) # "=" THEN NoMatch
        ELSE IF c > 0 /\ LitAt(t, g, "=>")
            THEN Matched(g + 2, SubSeq(t, s, e - 1), "")
        ELSE IF z >= q + 2 /\ LitAt(t, z, "=>")
            THEN Matched(z + 2, SubSeq(t, s, e - 1), "")
        ELSE NoMatch

\* (\w+)\s*:\s*function\s*\(
MatchObjectMethod(t, p) ==
    LET e == SkipClass(t, p, WordChars)
        s == SkipClass(t, e, Whitespace)
        f == SkipClass(t, s + 1, Whitespace)
        g == SkipClass(t, f + 8, Whitespace)
    IN  IF e > p /\ Ch(t, s) = ":" /\ LitAt(t, f, "function") /\ Ch(t, g) = "("
        THEN Matched(g + 1, SubSeq(t, p, e - 1), "")
        ELSE NoMatch

\* (\w+)\.(\w+)
MatchMember(t, p) ==
    LET e == SkipClass(t, p, WordChars)
        f == SkipClass(t, e + 1, WordChars)
    IN  IF e > p /\ Ch(t, e) = "." /\ f > e + 1
        THEN Matched(f, SubSeq(t, p, e - 1), SubSeq(t, e + 1, f - 1))
        ELSE NoMatch

\* //.*$  with re.MULTILINE: from "//" to the end of the line
MatchLineComment(t, p) ==
    IF LitAt(t, p, "//")
    THEN Matched(SkipTo(t, p + 2, {"\n"}), "", "")
    ELSE NoMatch

\* /\*[\s\S]*?\*/ : from "/*" to the first "*/" after it
MatchBlockComment(t, p) ==
    LET c == IF LitAt(t, p, "/*") THEN Find(t, p + 2, "*/") ELSE 0
    IN  IF c > 0 THEN Matched(c + 2, "", "") ELSE NoMatch

\* The characters a URL stops at: white space, the two quotes, angle
\* brackets, braces, bar, backslash, caret and square brackets (and the
\* backquote, which no TLA+ string can hold and no text here contains).
UrlStop == Whitespace \cup {"'", "\"", "<", ">", "{", "}", "|", "\\", "^", "[", "]"}

\* https?:// followed by one or more characters that are not in UrlStop;
\* the match itself is the capture.
MatchUrl(t, p) ==
    TheOne({
        TheOne({IF k > 0 /\ e > k + 3
                THEN Matched(e, SubSeq(t, p, e - 1), "") ELSE NoMatch
                : e \in {SkipTo(t, k + 3, UrlStop)}})
      : k \in {IF LitAt(t, p, "https://") THEN p + 5
               ELSE IF LitAt(t, p, "http://") THEN p + 4
               ELSE 0}})

MatchAt(pattern, t, p) ==
    CASE pattern = "url" -> MatchUrl(t, p)
      [] pattern = "function" -> MatchKeywordCall(t, p, "function")
      [] pattern = "method" -> MatchMethod(t, p)
      [] pattern = "arrow" -> MatchArrow(t, p)
      [] pattern = "object_method" -> MatchObjectMethod(t, p)
      [] pattern = "call" -> MatchCall(t, p)
      [] pattern = "new" -> MatchKeywordCall(t, p, "new")
      [] pattern = "member" -> MatchMember(t, p)
      [] pattern = "line_comment" -> MatchLineComment(t, p)
      [] pattern = "block_comment" -> MatchBlockComment(t, p)

\* The first offset >= p where the pattern matches, 0 when there is none.
NextMatch(pattern, t, p) ==
    TheOne({IF found = {} THEN 0
            ELSE CHOOSE q \in found : \A r \in found : q <= r
            : found \in {{q \in p..Len(t) : MatchAt(pattern, t, q).end > 0}}})

\* re.finditer: the leftmost match, then the next one after its end.
RECURSIVE finditer(_, _, _)
finditer(pattern, t, p) ==
    TheOne({
        IF q = 0 THEN <<>>
        ELSE TheOne({
                <<[start |-> q, end |-> m.end, name |-> m.name,
                   member |-> m.member]>> \o finditer(pattern, t, m.end)
             : m \in {MatchAt(pattern, t, q)}})
      : q \in {NextMatch(pattern, t, p)}})

\* re.findall with one group: the set of the captured names.
findall(pattern, t) ==
    UNION {{ms[i].name : i \in 1..Len(ms)} : ms \in {finditer(pattern, t, 1)}}

\* re.sub(pattern, '', t): the text between the matches.
RECURSIVE sub(_, _, _)
sub(pattern, t, p) ==
    TheOne({
        IF q = 0 THEN SubSeq(t, p, Len(t))
        ELSE SubSeq(t, p, q - 1) \o sub(pattern, t, MatchAt(pattern, t, q).end)
      : q \in {NextMatch(pattern, t, p)}})

---------------------------------------------------------------------------
(* function_analyzer.py: extraction.                                       *)

\* The keywords and built-ins extract_function_calls leaves out.
Denylist ==
    {"if", "for", "while", "switch", "catch", "function",
     "return", "throw", "new", "typeof", "instanceof",
     "console", "Array", "Object", "String", "Number",
     "Date", "Math", "JSON", "parseInt", "parseFloat"}

\* Google Apps Script built-in services.
gas_builtins ==
    {"SpreadsheetApp", "GmailApp", "DriveApp", "PropertiesService",
     "CacheService", "UrlFetchApp", "Utilities", "ScriptApp",
     "CalendarApp", "DocumentApp", "FormApp", "GroupsApp",
     "HtmlService", "LanguageApp", "LockService", "MailApp",
     "Session", "SitesApp", "SlidesApp", "Logger", "console"}

\* content[:offset].count('\n') + 1 for a match starting at offset start
\* (1-based here).
LineOf(content, start) == CountNewlines(content, start - 1) + 1

extract_function_definitions(content) ==
    findall("function", content) \cup findall("method", content)
        \cup findall("arrow", content) \cup findall("object_method", content)

extract_function_calls(content) ==
    TheOne({
        [i \in 1..Len(ms) |->
            [name |-> ms[i].name, line |-> LineOf(content, ms[i].start)]]
      : ms \in {SelectSeq(finditer("call", content, 1),
                          LAMBDA m : m.name \notin Denylist)}})

extract_class_references(content) ==
    TheOne({
        [i \in 1..Len(news) |->
            [type |-> "instantiation", name |-> news[i].name, member |-> "",
             line |-> LineOf(content, news[i].start)]]
      : news \in {finditer("new", content, 1)}})
    \o
    TheOne({
        [i \in 1..Len(mems) |->
            [type |-> "static_reference", name |-> mems[i].name,
             member |-> mems[i].member,
             line |-> LineOf(content, mems[i].start)]]
      : mems \in {SelectSeq(finditer("member", content, 1),
                            LAMBDA m : Ch(m.name, 1) \in Uppercase)}})

\* Remove comments: the line-comment pass, then the block-comment pass.
strip_comments(content) ==
    TheOne({sub("block_comment", stripped, 1)
            : stripped \in {sub("line_comment", content, 1)}})

\* analyze_file on the decoded text of a file.
analyze_file(text) ==
    TheOne({
        [definitions |-> extract_function_definitions(content),
         calls |-> extract_function_calls(content),
         class_references |-> extract_class_references(content)]
      : content \in {strip_comments(text)}})

---------------------------------------------------------------------------
(* function_analyzer.py: main.                                             *)

MaxFiles == 2

\* The name Path('.').glob('*.gs') gives the i-th file.
Path(i) == "f" \o ToString(i) \o ".gs"

\* The file contents a project is drawn from.  utf8 tells whether the
\* bytes of the file decode as UTF-8.
Sources ==
    {[data |-> "function Foo() { bar(); }", utf8 |-> TRUE],
     [data |-> "function Fo(){}\nFooBar();", utf8 |-> TRUE],
     [data |-> "FooBar();\nFo();", utf8 |-> TRUE],
     [data |-> "// bar();", utf8 |-> TRUE],
     [data |-> "/* bar() // */", utf8 |-> TRUE],
     [data |-> "/*\n*/\nbar();", utf8 |-> TRUE],
     [data |-> "// c\nnew Baz();", utf8 |-> TRUE],
     [data |-> "Logger.log(x);\nnew GmailApp();", utf8 |-> TRUE],
     [data |-> "const f = (a) => a;\nvar o = { m: function() {} };",
      utf8 |-> TRUE],
     [data |-> "function Session(){}\nSession.get();", utf8 |-> TRUE],
     [data |-> "bar();", utf8 |-> FALSE]}

\* The sequences of at most n elements of S.
SeqsUpTo(S, n) == UNION {[1..k -> S] : k \in 0..n}

\* The orders in which a set can be iterated.
Orders(S) ==
    {o \in [1..Cardinality(S) -> S] : {o[i] : i \in DOMAIN o} = S}

EmptyMap == [k \in {} |-> <<>>]

\* d[key].append(item), after d[key] = [] for a new key
Put(d, key, item) ==
    IF key \in DOMAIN d THEN [d EXCEPT ![key] = Append(@, item)]
    ELSE d @@ (key :> <<item>>)

\* Track calls
RECURSIVE track_calls(_, _, _)
track_calls(d, calls, filepath) ==
    IF calls = <<>> THEN d
    ELSE track_calls(
            Put(d, Head(calls).name,
                [file |-> filepath, line |-> Head(calls).line]),
            Tail(calls), filepath)

\* Track class references
RECURSIVE track_class_refs(_, _, _)
track_class_refs(d, refs, filepath) ==
    IF refs = <<>> THEN d
    ELSE track_class_refs(
            Put(d, Head(refs).name,
                [file |-> filepath, line |-> Head(refs).line,
                 type |-> Head(refs).type, member |-> Head(refs).member]),
            Tail(refs), filepath)

\* A slip: the loop left after its first turn whether or not it matched.
is_method_first_only(func_name, ord) ==
    ord # <<>> /\ StartsWith(func_name, Head(ord))

\* Check if it's a method of a known class: the loop over all_definitions,
\* in iteration order ord, leaving at the first match.
RECURSIVE is_method(_, _)
is_method(func_name, ord) ==
    IF ord = <<>> THEN FALSE
    ELSE IF StartsWith(func_name, Head(ord)) THEN TRUE
    ELSE is_method(func_name, Tail(ord))

\* Find undefined functions
find_undefined_functions(calls, definitions, ord) ==
    LET keys == {func_name \in DOMAIN calls :
                    /\ func_name \notin definitions
                    /\ func_name \notin gas_builtins
                    /\ ~is_method(func_name, ord)}
    IN  [func_name \in keys |-> calls[func_name]]

\* A slip: the classes are not held against the builtin services.
find_undefined_classes_no_allowlist(refs, definitions) ==
    LET keys == {class_name \in DOMAIN refs : class_name \notin definitions}
    IN  [class_name \in keys |-> refs[class_name]]

\* Find undefined classes
find_undefined_classes(refs, definitions) ==
    LET keys == {class_name \in DOMAIN refs :
                    /\ class_name \notin definitions
                    /\ class_name \notin gas_builtins}
    IN  [class_name \in keys |-> refs[class_name]]

\* The status the operating system keeps of exit(code): its low eight bits.
ExitStatus(code) == code % 256

\* The state main starts in, for the project files.
Start(files) ==
    /\ pc = "first_pass"
    /\ gs_files = [i \in DOMAIN files |->
                      [path |-> Path(i), data |-> files[i].data,
                       utf8 |-> files[i].utf8]]
    /\ idx = 0
    /\ order = <<>>
    /\ all_definitions = {}
    /\ all_calls = EmptyMap
    /\ all_class_refs = EmptyMap
    /\ file_definitions = EmptyMap
    /\ undefined_functions = EmptyMap
    /\ undefined_classes = EmptyMap
    /\ report = "none"
    /\ exit_status = -1
    /\ files_to_check = <<>>
    /\ scanned = 0
    /\ network = <<>>
    /\ all_urls = <<>>
    /\ unique_urls = <<>>
    /\ results = <<>>
    /\ tested = <<>>
    /\ requested = <<>>
    /\ written = "none"

Init == \E files \in SeqsUpTo(Sources, MaxFiles) : Start(files)

\* One turn of the first pass: the next file is read and analysed.
AnalyzeFile ==
    /\ pc = "first_pass"
    /\ idx < Len(gs_files)
    /\ gs_files[idx + 1].utf8
    /\ \E analysis \in {analyze_file(gs_files[idx + 1].data)} :
        LET filepath == gs_files[idx + 1].path
        IN /\ file_definitions' =
                file_definitions @@ (filepath :> analysis.definitions)
           /\ all_definitions' = all_definitions \cup analysis.definitions
           /\ all_calls' = track_calls(all_calls, analysis.calls, filepath)
           /\ all_class_refs' =
                track_class_refs(all_class_refs, analysis.class_references,
                                 filepath)
    /\ idx' = idx + 1
    /\ UNCHANGED <<pc, gs_files, order, undefined_functions, undefined_classes,
                   report, exit_status, uvars>>

\* The next file does not decode: f.read() raises UnicodeDecodeError, which
\* nothing in analyze_file or main catches, and the interpreter ends the
\* process with a traceback and status 1.
AnalyzeFileDecodeError ==
    /\ pc = "first_pass"
    /\ idx < Len(gs_files)
    /\ ~gs_files[idx + 1].utf8
    /\ pc' = "crashed"
    /\ exit_status' = 1
    /\ UNCHANGED <<avars, uvars>>

\* The second pass over the aggregated maps.
FindUndefined ==
    /\ pc = "first_pass"
    /\ idx = Len(gs_files)
    /\ \E ord \in Orders(all_definitions) :
        /\ order' = ord
        /\ undefined_functions' =
            find_undefined_functions(all_calls, all_definitions, ord)
    /\ undefined_classes' = find_undefined_classes(all_class_refs, all_definitions)
    /\ pc' = "report"
    /\ UNCHANGED <<gs_files, idx, all_definitions, all_calls, all_class_refs,
                   file_definitions, report, exit_status, uvars>>

\* The report is written, main returns the number of findings and the
\* process exits with it.
Report ==
    /\ pc = "report"
    /\ report' =
        [summary |->
            [files_analyzed |-> Len(gs_files),
             total_definitions |-> Cardinality(all_definitions),
             total_calls |-> Cardinality(DOMAIN all_calls),
             undefined_functions |-> Cardinality(DOMAIN undefined_functions),
             undefined_classes |-> Cardinality(DOMAIN undefined_classes)],
         undefined_functions |-> undefined_functions,
         undefined_classes |-> undefined_classes,
         all_definitions |-> all_definitions]
    /\ exit_status' =
        ExitStatus(Cardinality(DOMAIN undefined_functions)
                   + Cardinality(DOMAIN undefined_classes))
    /\ pc' = "done"
    /\ UNCHANGED <<gs_files, idx, order, all_definitions, all_calls,
                   all_class_refs, file_definitions, undefined_functions,
                   undefined_classes, uvars>>

Next ==
    \/ AnalyzeFile
    \/ AnalyzeFileDecodeError
    \/ FindUndefined
    \/ Report

Spec == Init /\ [][Next]_vars

---------------------------------------------------------------------------
(* Large projects: generated files of distinct undefined calls, to reach   *)
(* the finding counts at which the width of the exit status matters.       *)

ChunkLines == 16
MaxChunks == 16

\* A file of the call lines f<lo>(); .. f<hi>();
RECURSIVE CallLines(_, _)
CallLines(lo, hi) ==
    IF lo > hi THEN ""
    ELSE "f" \o ToString(lo) \o "();\n" \o CallLines(lo + 1, hi)

\* k files of ChunkLines distinct calls each.
Chunks(k) ==
    [j \in 1..k |->
        [data |-> CallLines((j - 1) * ChunkLines + 1, j * ChunkLines),
         utf8 |-> TRUE]]

InitExit ==
    \E k \in 0..MaxChunks, extra \in SeqsUpTo(Sources, 1) :
        Start(Chunks(k) \o extra)

SpecExit == InitExit /\ [][Next]_vars

---------------------------------------------------------------------------
(* Properties of the analyzer.                                             *)

\* Whether a is a prefix of b (a itself included).
IsPrefix(a, b) == Len(a) <= Len(b) /\ SubSeq(b, 1, Len(a)) = a

Aggregated == pc \in {"report", "done"}

\* The text of the file at path, as read.
TextOf(path) ==
    TheOne({gs_files[i].data : i \in {j \in DOMAIN gs_files : gs_files[j].path = path}})

\* The names with a recorded call site in the file at path.
CallsIn(path) ==
    {n \in DOMAIN all_calls :
        \E i \in DOMAIN all_calls[n] : all_calls[n][i].file = path}

\* The offsets of t at which a call expression n( starts.
CallOffsets(t, n) ==
    {q \in 1..Len(t) :
        /\ Ch(t, q - 1) \notin WordChars
        /\ MatchCall(t, q).end > 0
        /\ MatchCall(t, q).name = n}

\* The offsets of t that lie inside a // or /* */ comment of the scripting
\* language, scanning from offset p outside any comment.
RECURSIVE CommentOffsets(_, _)
CommentOffsets(t, p) ==
    IF p > Len(t) THEN {}
    ELSE IF LitAt(t, p, "//")
        THEN TheOne({(p..(e - 1)) \cup CommentOffsets(t, e)
                     : e \in {SkipTo(t, p + 2, {"\n"})}})
    ELSE IF LitAt(t, p, "/*")
        THEN TheOne({IF c = 0 THEN p..Len(t)
                     ELSE (p..(c + 1)) \cup CommentOffsets(t, c + 2)
                     : c \in {Find(t, p + 2, "*/")}})
    ELSE CommentOffsets(t, p + 1)

\* C1: when the analyzer has run to its end, the exit status of the process
\* is the number of keys of undefined_functions plus the number of keys of
\* undefined_classes, and it is zero exactly when both maps are empty.
C1_ExitStatusIsFindingCount ==
    pc = "done" =>
        /\ exit_status = Cardinality(DOMAIN undefined_functions)
                         + Cardinality(DOMAIN undefined_classes)
        /\ exit_status = 0 <=>
            (DOMAIN undefined_functions = {} /\ DOMAIN undefined_classes = {})

\* C2, as stated: a called name n is a key of undefined_functions iff n is
\* not defined, not in the allowlist, and n is not a prefix of a definition.
C2_UndefinedIffNotPrefixOfDefinition ==
    Aggregated =>
        \A n \in DOMAIN all_calls :
            n \in DOMAIN undefined_functions <=>
                /\ n \notin all_definitions
                /\ n \notin gas_builtins
                /\ ~\E d \in all_definitions : IsPrefix(n, d)

\* C2, amended: a called name n is a key of undefined_functions iff n is
\* not defined, not in the allowlist, and no definition is a prefix of n;
\* and undefined_functions has no other keys.
C2_UndefinedIffNoDefinitionIsPrefix ==
    Aggregated =>
        /\ DOMAIN undefined_functions \subseteq DOMAIN all_calls
        /\ \A n \in DOMAIN all_calls :
            n \in DOMAIN undefined_functions <=>
                /\ n \notin all_definitions
                /\ n \notin gas_builtins
                /\ ~\E d \in all_definitions : IsPrefix(d, n)

\* A called name is suppressed by a definition that is a proper prefix of
\* it, and another called name, itself a proper prefix of a definition, is
\* reported.
C2_Witness ==
    /\ pc = "done"
    /\ \E n \in DOMAIN all_calls \ (all_definitions \cup gas_builtins) :
        /\ n \notin DOMAIN undefined_functions
        /\ \E d \in all_definitions : IsPrefix(d, n)
    /\ \E n \in DOMAIN undefined_functions :
        \E d \in all_definitions : IsPrefix(n, d)

\* C3: a called name that some definition is a prefix of is never a key of
\* undefined_functions, whatever the other definitions are and in whatever
\* order the definitions are iterated.
C3_AnyPrefixSuppresses ==
    Aggregated =>
        \A n \in DOMAIN all_calls :
            (\E d \in all_definitions : IsPrefix(d, n)) =>
                n \notin DOMAIN undefined_functions

\* An undefined called name is suppressed although the definition iterated
\* first is no prefix of it and only a later one is.
C3_Witness ==
    /\ pc = "done"
    /\ \E n \in DOMAIN all_calls \ all_definitions :
        /\ n \notin gas_builtins
        /\ order # <<>>
        /\ ~IsPrefix(order[1], n)
        /\ \E i \in DOMAIN order : IsPrefix(order[i], n)
        /\ n \notin DOMAIN undefined_functions

\* C4: a call expression name( that occurs in a file only inside comments
\* has no call site recorded for that file.
C4_NoCallFromComment ==
    \A i \in 1..idx :
        \A n \in CallsIn(gs_files[i].path) :
            CallOffsets(gs_files[i].data, n) = {}
            \/ CallOffsets(gs_files[i].data, n)
                 \ CommentOffsets(gs_files[i].data, 1) # {}

\* C5: no name of the builtin allowlist is a key of undefined_functions or
\* of undefined_classes.
C5_AllowlistNeverReported ==
    \A n \in gas_builtins :
        /\ n \notin DOMAIN undefined_functions
        /\ n \notin DOMAIN undefined_classes

\* Allowlist names that the project does not define are called and
\* referenced, and the findings have been computed and are not empty.
C5_Witness ==
    /\ pc = "done"
    /\ (DOMAIN all_calls \cap gas_builtins) \ all_definitions # {}
    /\ (DOMAIN all_class_refs \cap gas_builtins) \ all_definitions # {}
    /\ DOMAIN undefined_functions # {}

\* C6: a project with a file that does not decode is still analysed to the
\* end: the run does not abort, and when it ends the report is written.
C6_UndecodableFileSkipped ==
    (\E i \in DOMAIN gs_files : ~gs_files[i].utf8) =>
        /\ pc # "crashed"
        /\ exit_status # -1 => report # "none"

DefinitionPatterns == {"function", "method", "arrow", "object_method"}

\* The scanned files with zero matches of any definition pattern.
FilesWithoutDefinitions ==
    {i \in 1..idx :
        \A pattern \in DefinitionPatterns :
            NextMatch(pattern, strip_comments(gs_files[i].data), 1) = 0}

\* C7, as stated: a file with zero matches of any definition pattern has an
\* empty definitions set, and each of its call names outside the allowlist
\* is a key of undefined_functions, whatever the other files are.
C7_CallsOfFileWithoutDefinitionsReported ==
    Aggregated =>
        \A i \in FilesWithoutDefinitions :
            /\ file_definitions[gs_files[i].path] = {}
            /\ \A n \in CallsIn(gs_files[i].path) \ gas_builtins :
                n \in DOMAIN undefined_functions

\* C7, amended: ... each of its call names outside the allowlist is a key
\* of undefined_functions unless a definition found in the scanned files
\* equals it or is a prefix of it.
C7_CallsOfFileWithoutDefinitionsReportedUnlessDefined ==
    Aggregated =>
        \A i \in FilesWithoutDefinitions :
            /\ file_definitions[gs_files[i].path] = {}
            /\ \A n \in CallsIn(gs_files[i].path) \ gas_builtins :
                (~\E d \in all_definitions : IsPrefix(d, n)) =>
                    n \in DOMAIN undefined_functions

\* A file without definitions has a call that is reported while another
\* file of the project brings definitions.
C7_Witness ==
    /\ pc = "done"
    /\ all_definitions # {}
    /\ \E i \in FilesWithoutDefinitions :
        CallsIn(gs_files[i].path) \cap DOMAIN undefined_functions # {}

\* C10: every recorded call site of a name n carries a line of its file on
\* which, in the file as read, a call expression n( starts.
C10_CallSiteLineIsLineInFile ==
    \A n \in DOMAIN all_calls :
        \A i \in DOMAIN all_calls[n] :
            \E q \in CallOffsets(TextOf(all_calls[n][i].file), n) :
                LineOf(TextOf(all_calls[n][i].file), q) = all_calls[n][i].line

---------------------------------------------------------------------------
(* url_test.py                                                             *)

MaxUrlFiles == 2

\* The file contents the link checker's project is drawn from.
UrlSources ==
    {[data |-> "Visit http://example.com or http://b.io/ for info.", utf8 |-> TRUE],
     [data |-> "See https://a.io/x, or http://a.io/y.", utf8 |-> TRUE],
     [data |-> "<a href=\"https://a.io/x\">x</a> (https://a.io/x)",
      utf8 |-> TRUE],
     [data |-> "http://LOCALHOST:8080/ http://u@127.0.0.1/p http://www.example.com",
      utf8 |-> TRUE],
     [data |-> "[r](https://github.com/repos/o/r)", utf8 |-> TRUE],
     [data |-> "http://a.io/y", utf8 |-> FALSE]}

\* The name the globs give the i-th file.
UrlPath(i) == "d" \o ToString(i) \o ".md"

\* str.rstrip(chars)
RECURSIVE rstrip(_, _)
rstrip(str, chars) ==
    IF Len(str) > 0 /\ Ch(str, Len(str)) \in chars
    THEN rstrip(SubSeq(str, 1, Len(str) - 1), chars)
    ELSE str

\* Extract all URLs from a file: the list of (clean_url, filepath); the
\* empty list when reading the file raises.
extract_urls_from_file(file) ==
    IF ~file.utf8 THEN <<>>
    ELSE TheOne({
            [i \in 1..Len(found) |->
                <<rstrip(found[i].name, {".", ",", ";", ":", "!", "?", ")"}),
                  file.path>>]
          : found \in {finditer("url", file.data, 1)}})

\* The position of url in the insertion-ordered dict d, 0 when it is no key.
KeyIndex(d, url) ==
    IF \E i \in DOMAIN d : d[i].url = url
    THEN CHOOSE i \in DOMAIN d : d[i].url = url
    ELSE 0

\* A slip: the list of files is begun anew for a URL seen before.
add_unique_overwriting(d, url, filepath) ==
    IF KeyIndex(d, url) = 0
    THEN Append(d, [url |-> url, files |-> <<filepath>>])
    ELSE [d EXCEPT ![KeyIndex(d, url)].files = <<filepath>>]

\* Remove duplicates while preserving file info: one turn of the loop.
add_unique(d, url, filepath) ==
    IF KeyIndex(d, url) = 0
    THEN Append(d, [url |-> url, files |-> <<filepath>>])
    ELSE [d EXCEPT ![KeyIndex(d, url)].files = Append(@, filepath)]

RECURSIVE deduplicate(_, _)
deduplicate(d, urls) ==
    IF urls = <<>> THEN d
    ELSE deduplicate(add_unique(d, Head(urls)[1], Head(urls)[2]), Tail(urls))

\* The last offset of str where lit stands, 0 when there is none.
FindLast(str, lit) ==
    TheOne({IF at = {} THEN 0 ELSE CHOOSE q \in at : \A r \in at : r <= q
            : at \in {{q \in 1..Len(str) : LitAt(str, q, lit)}}})

\* urlparse(url).hostname of an http(s) URL without brackets: the network
\* location runs to the first "/", "?" or "#"; the host follows the last
\* "@" and ends at the first ":"; it is lowercased, and None when empty.
hostname(url) ==
    TheOne({
        TheOne({
            TheOne({IF host = "" THEN "None" ELSE lower(host)
                    : host \in {SubSeq(hostinfo, 1,
                                       SkipTo(hostinfo, 1, {":"}) - 1)}})
          : hostinfo \in {SubSeq(netloc, FindLast(netloc, "@") + 1,
                                 Len(netloc))}})
      : netloc \in {SubSeq(url, Find(url, 1, "://") + 3,
                           SkipTo(url, Find(url, 1, "://") + 3,
                                  {"/", "?", "#"}) - 1)}})

\* str.replace(old, new)
RECURSIVE replace(_, _, _)
replace(str, old, new) ==
    TheOne({IF q = 0 THEN str
            ELSE SubSeq(str, 1, q - 1) \o new
                 \o replace(SubSeq(str, q + Len(old), Len(str)), old, new)
            : q \in {Find(str, 1, old)}})

\* The URL test_url requests for url: GitHub URLs in API format.
request_url(url) ==
    IF /\ Find(url, 1, "github.com") > 0
       /\ Find(url, 1, "/repos/") > 0
       /\ Find(url, 1, "/api.github.com") = 0
    THEN replace(url, "github.com", "api.github.com/repos")
    ELSE url

\* What requests.head can come to: a response with a status code (the two
\* on either side of the comparison with 400), or an exception of one of the
\* classes test_url tells apart.
StatusCodes == {399, 400}
Outcomes ==
    {[kind |-> "response", status_code |-> c, text |-> ""] : c \in StatusCodes}
    \cup {[kind |-> "Timeout", status_code |-> 0, text |-> "timed out"],
          [kind |-> "ConnectionError", status_code |-> 0, text |-> "refused"],
          [kind |-> "Exception", status_code |-> 0,
           text |-> "Exceeded 30 redirects."]}

\* No request was issued.
NoRequest == [kind |-> "none", status_code |-> 0, text |-> ""]

\* A slip: status 400 taken for a success (<= 400 for < 400).
test_url_inclusive_bound(url, outcome) ==
    IF hostname(url) \in {"localhost", "example.com", "127.0.0.1"}
    THEN [status |-> "skip", message |-> "Local/example URL", request |-> ""]
    ELSE IF outcome.kind = "response"
    THEN IF outcome.status_code <= 400
         THEN [status |-> "success",
               message |-> "Status: " \o ToString(outcome.status_code),
               request |-> request_url(url)]
         ELSE [status |-> "fail",
               message |-> "Status: " \o ToString(outcome.status_code),
               request |-> request_url(url)]
    ELSE IF outcome.kind = "Timeout"
    THEN [status |-> "fail", message |-> "Timeout", request |-> request_url(url)]
    ELSE IF outcome.kind = "ConnectionError"
    THEN [status |-> "fail", message |-> "Connection error",
          request |-> request_url(url)]
    ELSE [status |-> "fail", message |-> outcome.text,
          request |-> request_url(url)]

\* test_url, for the outcome the request comes to if one is issued:
\* the status, the message and the URL requested ("" for none).
test_url(url, outcome) ==
    IF hostname(url) \in {"localhost", "example.com", "127.0.0.1"}
    THEN [status |-> "skip", message |-> "Local/example URL", request |-> ""]
    ELSE IF outcome.kind = "response"
    THEN IF outcome.status_code < 400
         THEN [status |-> "success",
               message |-> "Status: " \o ToString(outcome.status_code),
               request |-> request_url(url)]
         ELSE [status |-> "fail",
               message |-> "Status: " \o ToString(outcome.status_code),
               request |-> request_url(url)]
    ELSE IF outcome.kind = "Timeout"
    THEN [status |-> "fail", message |-> "Timeout", request |-> request_url(url)]
    ELSE IF outcome.kind = "ConnectionError"
    THEN [status |-> "fail", message |-> "Connection error",
          request |-> request_url(url)]
    ELSE [status |-> "fail", message |-> outcome.text,
          request |-> request_url(url)]

InitUrl ==
    /\ \E files \in SeqsUpTo(UrlSources, MaxUrlFiles) :
        files_to_check = [i \in DOMAIN files |->
                            [path |-> UrlPath(i), data |-> files[i].data,
                             utf8 |-> files[i].utf8]]
    /\ pc = "extract"
    /\ scanned = 0
    /\ network = <<>>
    /\ all_urls = <<>>
    /\ unique_urls = <<>>
    /\ results = [success |-> <<>>, fail |-> <<>>, skip |-> <<>>]
    /\ tested = <<>>
    /\ requested = <<>>
    /\ written = "none"
    /\ exit_status = -1
    /\ gs_files = <<>>
    /\ idx = 0
    /\ order = <<>>
    /\ all_definitions = {}
    /\ all_calls = EmptyMap
    /\ all_class_refs = EmptyMap
    /\ file_definitions = EmptyMap
    /\ undefined_functions = EmptyMap
    /\ undefined_classes = EmptyMap
    /\ report = "none"

\* Extract all URLs: one turn of the loop over the files.
ExtractUrls ==
    /\ pc = "extract"
    /\ scanned < Len(files_to_check)
    /\ all_urls' = all_urls \o extract_urls_from_file(files_to_check[scanned + 1])
    /\ scanned' = scanned + 1
    /\ UNCHANGED <<pc, files_to_check, network, unique_urls, results, tested,
                   requested, written, exit_status, avars>>

\* Remove duplicates while preserving file info.
Deduplicate ==
    /\ pc = "extract"
    /\ scanned = Len(files_to_check)
    /\ unique_urls' = deduplicate(<<>>, all_urls)
    /\ pc' = "test"
    /\ UNCHANGED <<files_to_check, scanned, network, all_urls, results, tested,
                   requested, written, exit_status, avars>>

\* Test each URL: one turn of the loop over unique_urls.
TestUrl ==
    /\ pc = "test"
    /\ Len(tested) < Len(unique_urls)
    /\ \E outcome \in Outcomes :
        \E entry \in {unique_urls[Len(tested) + 1]} :
        \E r \in {test_url(entry.url, outcome)} :
            /\ results' =
                [results EXCEPT ![r.status] =
                    Append(@, [url |-> entry.url, files |-> entry.files,
                               status |-> r.status, message |-> r.message])]
            /\ tested' = Append(tested, entry.url)
            /\ network' = Append(network, IF r.request = "" THEN NoRequest ELSE outcome)
            /\ requested' =
                IF r.request = "" THEN requested ELSE Append(requested, r.request)
    /\ UNCHANGED <<pc, files_to_check, scanned, all_urls, unique_urls, written,
                   exit_status, avars>>

\* Write detailed results and exit with the number of failures.
Summarize ==
    /\ pc = "test"
    /\ Len(tested) = Len(unique_urls)
    /\ written' = results
    /\ exit_status' = ExitStatus(Len(results.fail))
    /\ pc' = "done"
    /\ UNCHANGED <<files_to_check, scanned, network, all_urls, unique_urls,
                   results, tested, requested, avars>>

NextUrl ==
    \/ ExtractUrls
    \/ Deduplicate
    \/ TestUrl
    \/ Summarize

SpecUrl == InitUrl /\ [][NextUrl]_vars

---------------------------------------------------------------------------
(* Properties of the link checker.                                         *)

\* The distinct URLs extracted from the scanned files.
FoundUrls == {all_urls[i][1] : i \in DOMAIN all_urls}

\* The files a URL was found in.
FilesWith(url) ==
    {all_urls[i][2] : i \in {j \in DOMAIN all_urls : all_urls[j][1] = url}}

\* The entries of the three result lists.
ResultEntries == results.success \o results.fail \o results.skip

\* C8: after the run every distinct URL extracted from the scanned files
\* has been handed to test_url once and has one entry in the three result
\* lists together, whose files are the files the URL was found in; the
\* lists hold no other entries.
C8_EachUrlReportedOnceWithItsFiles ==
    pc = "done" =>
        /\ Len(ResultEntries) = Cardinality(FoundUrls)
        /\ \A url \in FoundUrls :
            /\ Cardinality({i \in DOMAIN tested : tested[i] = url}) = 1
            /\ Cardinality({i \in DOMAIN ResultEntries :
                                ResultEntries[i].url = url}) = 1
            /\ \A i \in DOMAIN ResultEntries :
                ResultEntries[i].url = url =>
                    {ResultEntries[i].files[k] :
                        k \in DOMAIN ResultEntries[i].files} = FilesWith(url)

\* The run has ended for a project in which one URL was found in two files
\* and another URL twice in one file.
C8_Witness ==
    /\ pc = "done"
    /\ \E url \in FoundUrls : Cardinality(FilesWith(url)) = 2
    /\ \E i \in DOMAIN ResultEntries :
        \E k \in DOMAIN ResultEntries[i].files :
            /\ k > 1
            /\ ResultEntries[i].files[k] = ResultEntries[i].files[k - 1]

\* C9: every URL handed to test_url has an entry with one of the three
\* statuses: skip with the message "Local/example URL" and no request when
\* its hostname is localhost, example.com or 127.0.0.1; otherwise success
\* for a response with a status below 400, and fail for a status of 400 or
\* more (with the status in the message), a timeout, a connection error or
\* any other exception.
C9_ProbeClassification ==
    \A entries \in {ResultEntries} :
        \A i \in DOMAIN tested :
            /\ \E k \in DOMAIN entries : entries[k].url = tested[i]
            /\ \A r \in {entries[k] : k \in {j \in DOMAIN entries :
                                                entries[j].url = tested[i]}} :
                \A o \in {network[i]} :
                    /\ r.status \in {"skip", "success", "fail"}
                    /\ IF hostname(tested[i])
                            \in {"localhost", "example.com", "127.0.0.1"}
                       THEN /\ r.status = "skip"
                            /\ r.message = "Local/example URL"
                            /\ o.kind = "none"
                       ELSE /\ o.kind # "none"
                            /\ r.status = "success" <=>
                                (o.kind = "response" /\ o.status_code < 400)
                            /\ r.status # "success" => r.status = "fail"
                            /\ (o.kind = "response" /\ o.status_code >= 400) =>
                                r.message = "Status: " \o ToString(o.status_code)

\* The run has ended with a skipped URL, a success, a failure by status
\* with the status in its message, and a failure by exception.
C9_Witness ==
    /\ pc = "done"
    /\ results.skip # <<>>
    /\ results.success # <<>>
    /\ \E i \in DOMAIN results.fail : results.fail[i].message = "Status: 400"
    /\ \E i \in DOMAIN network : network[i].kind \in {"Timeout", "ConnectionError", "Exception"}

=============================================================================
